---- MODULE Spec2Model ----
(***************************************************************************)
(* Retry-with-fallback request pipeline of                                 *)
(* release/copilot-proxy-v0.0.2/examples/vscode_llm_example_full.py:       *)
(* call_llm_with_fallback -> call_vscode_llm (retry loop with exponential  *)
(* backoff) -> call_anthropic_fallback.  One invocation is modelled, with  *)
(* one step per suspension point (await) of the coroutine.                 *)
(***************************************************************************)
EXTENDS Integers, Sequences, FiniteSets, TLC

\* ------------------------------------------------------------------ bounds
\* Largest value of VSCODE_MAX_RETRIES explored (the source sets it to 3).
MaxRetriesBound == 4
\* Largest value of VSCODE_MAX_RETRIES explored with two concurrent invocations.
MaxPairRetries == 3
\* Longest tool_calls list of a first response of the tool-calling flow.
MaxToolCalls == 2

\* ------------------------------------------------------- program constants
\* wait_time = 2 ** (attempt + 1)
BackoffBase == 2
\* if response.status != 200
HTTP_OK == 200

\* -------------------------------------------------------------- characters
\* Strings inspected character by character (the error body) are sequences
\* of one-character strings.
UpperChars == <<"A","B","C","D","E","F","G","H","I","J","K","L","M",
                "N","O","P","Q","R","S","T","U","V","W","X","Y","Z">>
LowerChars == <<"a","b","c","d","e","f","g","h","i","j","k","l","m",
                "n","o","p","q","r","s","t","u","v","w","x","y","z">>

\* str.lower() on one character
LowerChar(c) ==
    IF \E i \in DOMAIN UpperChars : UpperChars[i] = c
    THEN LowerChars[CHOOSE i \in DOMAIN UpperChars : UpperChars[i] = c]
    ELSE c

\* str.lower()
Lower(s) == [i \in 1..Len(s) |-> LowerChar(s[i])]

\* needle in hay
Contains(hay, needle) ==
    \E i \in 0..(Len(hay) - Len(needle)) :
        SubSeq(hay, i + 1, i + Len(needle)) = needle

\* the literal 'filtered'
FilteredMarker == <<"f","i","l","t","e","r","e","d">>

\* ------------------------------------------------------------ environment
\* Error bodies a non-200 response may carry.
BodyFiltered    == <<"f","i","l","t","e","r","e","d">>
BodyMixedCase   == <<"n","o",":"," ","F","i","l","T","E","R","E","D","!">>
BodyUnavailable == <<"s","e","r","v","i","c","e"," ","u","n","a","v","a","i","l","a","b","l","e">>
BodyNearMiss    == <<"f","i","l","t","e","r"," ","e","d">>
BodyEmpty       == <<>>
ErrorBodies == {BodyFiltered, BodyMixedCase, BodyUnavailable, BodyNearMiss, BodyEmpty}

ErrorStatuses == {400, 503}

\* One element of data['choices'].  shape says what choice['message']['content']
\* evaluates to: "ok" a string (content), "null_content" None, "no_message" /
\* "no_content" a missing key.
Choice(shape, content) == [shape |-> shape, content |-> content]

ChoiceLists ==
    { <<>>,
      <<Choice("no_message", "")>>,
      <<Choice("no_content", "")>>,
      <<Choice("null_content", "")>>,
      <<Choice("ok", "")>>,
      <<Choice("ok", "4")>>,
      <<Choice("ok", "Paris"), Choice("ok", "")>>,
      <<Choice("ok", ""), Choice("ok", "Paris")>> }

\* What the primary backend does with one request.
\*   type "client_error": aiohttp raises a ClientError (connect, read)
\*   type "timeout":      the 120 s ClientTimeout expires (asyncio.TimeoutError)
\*   type "response":     an HTTP response; json says how response.json() ends
PrimaryReply(type, status, body, json, hasChoices, choices) ==
    [type |-> type, status |-> status, body |-> body, json |-> json,
     hasChoices |-> hasChoices, choices |-> choices]

NoReply == PrimaryReply("none", 0, <<>>, "none", FALSE, <<>>)

PrimaryOutcomes ==
    { PrimaryReply("client_error", 0, <<>>, "none", FALSE, <<>>),
      PrimaryReply("timeout", 0, <<>>, "none", FALSE, <<>>) }
    \cup { PrimaryReply("response", s, b, "none", FALSE, <<>>) :
             s \in ErrorStatuses, b \in ErrorBodies }
    \cup { PrimaryReply("response", HTTP_OK, <<>>, j, FALSE, <<>>) :
             j \in {"bad_content_type", "bad_json"} }
    \cup { PrimaryReply("response", HTTP_OK, <<>>, "ok", FALSE, <<>>) }
    \cup { PrimaryReply("response", HTTP_OK, <<>>, "ok", TRUE, c) : c \in ChoiceLists }

\* One block of response.content of the vendor SDK: a text block has the
\* attribute text, any other block (tool_use) has not.
Block(hasText, text) == [hasText |-> hasText, text |-> text]

BlockLists ==
    { <<>>,
      <<Block(TRUE, "4")>>,
      <<Block(TRUE, "")>>,
      <<Block(FALSE, "")>>,
      <<Block(TRUE, "Pa"), Block(FALSE, ""), Block(TRUE, "ris")>> }

SecondaryReply(type, content) == [type |-> type, content |-> content]

NoSecondaryReply == SecondaryReply("none", <<>>)

SecondaryOutcomes ==
    { SecondaryReply("api_error", <<>>) }
    \cup { SecondaryReply("response", b) : b \in BlockLists }

\* ----------------------------------------------------------------- errors
\* An exception object: its class, and the status and body its message carries.
Exc(kind, status, body) == [kind |-> kind, status |-> status, body |-> body]

\* last_error = None
None == Exc("None", 0, <<>>)

\* No result returned (yet).
NoResult == [text |-> "", source |-> "NONE"]

\* ------------------------------------------------------------------ state
VARIABLES
    VSCODE_MAX_RETRIES,           \* module constant, line 25
    VSCODE_LLM_FALLBACK_ENABLED,  \* module constant, line 26
    ANTHROPIC_API_KEY,            \* TRUE iff the environment variable is non-empty
    pc,            \* position of the coroutine
    attempt,       \* loop variable of call_vscode_llm
    last_error,    \* local of call_vscode_llm
    response,      \* the reply of the request in flight / last received
    caught,        \* e of `except VSCodeLLMError as e`
    fallback,      \* the reply of the secondary backend
    sessionOpen,   \* an aiohttp.ClientSession is open
    clientOpen,    \* an AsyncAnthropic client was created and not closed
    result,        \* value returned to the caller
    error,         \* exception raised to the caller
    events,        \* what the invocation did, in order (its console log)
    inv,           \* two concurrent calls of call_vscode_llm: the locals of each
    tpc,           \* tool-calling flow: position of main
    messages,      \* tool-calling flow: the conversation
    sent,          \* tool-calling flow: the messages of each request sent
    first,         \* tool-calling flow: the first response
    toolsError     \* tool-calling flow: exception caught at line 158, or ""

vars == <<VSCODE_MAX_RETRIES, VSCODE_LLM_FALLBACK_ENABLED, ANTHROPIC_API_KEY,
          pc, attempt, last_error, response, caught, fallback, sessionOpen,
          clientOpen, result, error, events, inv,
          tpc, messages, sent, first, toolsError>>

\* The state of the tool-calling flow (examples/vscode_llm_tools_simple.py).
toolVars == <<tpc, messages, sent, first, toolsError>>

\* The state of the two concurrent invocations.
pairVars == <<inv>>

config == <<VSCODE_MAX_RETRIES, VSCODE_LLM_FALLBACK_ENABLED, ANTHROPIC_API_KEY>>

\* One entry of the log: ev what happened, n the attempt (0-based), kind the
\* exception class or "", wait the seconds slept.
Event(ev, n, kind, wait) == [ev |-> ev, n |-> n, kind |-> kind, wait |-> wait]

Log(e) == events' = Append(events, e)

\* ---------------------------------------------------------- pure functions
\* Lines 98-102 with the .lower() forgotten.
ErrorResponseCaseSensitive(status, body) ==
    IF Contains(body, FilteredMarker)
    THEN Exc("ContentFilteredError", status, body)
    ELSE Exc("VSCodeLLMError", status, body)

\* Lines 98-102: a non-200 response raises ContentFilteredError when the
\* lower-cased body contains 'filtered', VSCodeLLMError otherwise.
ErrorResponse(status, body) ==
    IF Contains(Lower(body), FilteredMarker)
    THEN Exc("ContentFilteredError", status, body)
    ELSE Exc("VSCodeLLMError", status, body)

\* `if content is None` in place of `if not content`.
FalsyNoneOnly(choice) == choice.shape = "null_content"

\* not content
Falsy(choice) == choice.shape = "null_content" \/ choice.content = ""

\* Lines 104-120: a 200 response raises, or returns its first choice's content.
SuccessResponse(r) ==
    IF r.json = "bad_content_type" THEN Exc("ClientError", 0, <<>>)
    ELSE IF r.json = "bad_json" THEN Exc("JSONDecodeError", 0, <<>>)
    ELSE IF ~r.hasChoices \/ r.choices = <<>> THEN Exc("EmptyResponseError", 0, <<>>)
    ELSE IF r.choices[1].shape \in {"no_message", "no_content"} THEN Exc("KeyError", 0, <<>>)
    ELSE IF Falsy(r.choices[1]) THEN Exc("EmptyResponseError", 0, <<>>)
    ELSE Exc("return", 0, <<>>)

\* The body of the try block (lines 91-120): the exception it raises, or
\* "return".
TryBody(r) ==
    IF r.type = "client_error" THEN Exc("ClientError", 0, <<>>)
    ELSE IF r.type = "timeout" THEN Exc("TimeoutError", 0, <<>>)
    ELSE IF r.status # HTTP_OK THEN ErrorResponse(r.status, r.body)
    ELSE SuccessResponse(r)

\* Lines 122-132 with a final `except Exception as e: last_error = e`.
ExceptClausesCatchAll(exc) ==
    IF exc.kind = "ClientError" THEN Exc("VSCodeLLMConnectionError", 0, <<>>)
    ELSE exc

\* The except clauses of the loop (lines 122-132): the value assigned to
\* last_error, or None when no clause matches and the exception propagates.
ExceptClauses(exc) ==
    IF exc.kind = "ClientError" THEN Exc("VSCodeLLMConnectionError", 0, <<>>)
    ELSE IF exc.kind \in {"ContentFilteredError", "EmptyResponseError"} THEN exc
    ELSE IF exc.kind = "VSCodeLLMError" THEN exc
    ELSE None

\* 2 ** attempt: the + 1 forgotten.
WaitTimeFromAttempt(a) == BackoffBase ^ a

\* 2 ** (attempt + 1)
WaitTime(a) == BackoffBase ^ (a + 1)

\* The backoff of lines 135-138 left out: the loop retries at once.
BackoffNeededNever(a) == FALSE

\* if attempt < VSCODE_MAX_RETRIES - 1
BackoffNeeded(a) == a < VSCODE_MAX_RETRIES - 1

\* range(VSCODE_MAX_RETRIES + 1): one attempt too many.
LoopContinuesOneMore(a) == a <= VSCODE_MAX_RETRIES

\* range(VSCODE_MAX_RETRIES - 1): one attempt too few.
LoopContinuesOneLess(a) == a < VSCODE_MAX_RETRIES - 1

\* for attempt in range(VSCODE_MAX_RETRIES)
LoopContinues(a) == a < VSCODE_MAX_RETRIES

\* Only the first block read (response.content[0].text).
ExtractTextFirstBlock(blocks) ==
    IF blocks = <<>> \/ ~Head(blocks).hasText THEN "" ELSE Head(blocks).text

\* Lines 182-185: the concatenation of the text of the blocks that have one.
RECURSIVE ExtractTextRec(_)
ExtractTextRec(blocks) ==
    IF blocks = <<>> THEN ""
    ELSE (IF Head(blocks).hasText THEN Head(blocks).text ELSE "")
         \o ExtractTextRec(Tail(blocks))

ExtractText(blocks) == ExtractTextRec(blocks)

\* The fallback flag alone decides; the credential check is skipped.
FallbackPermittedFlagOnly == VSCODE_LLM_FALLBACK_ENABLED

\* Lines 227-233: the fallback is taken only when it is enabled and a
\* credential is set.
FallbackPermitted == VSCODE_LLM_FALLBACK_ENABLED /\ ANTHROPIC_API_KEY

\* ------------------------------------------------ concurrent invocations
\* The coroutines of one event loop that run call_vscode_llm concurrently.
Invocations == {1, 2}

\* The locals of one call of call_vscode_llm at its entry (lines 72-87), with
\* what it has done so far: posts requests issued, sleeps the waits made,
\* returned / raised how it ended.
PairLocals ==
    [pc |-> "loop", attempt |-> 0, last_error |-> None, response |-> NoReply,
     posts |-> 0, sleeps |-> <<>>, returned |-> NoResult, raised |-> None]

\* The replies the primary backend gives to the concurrent invocations.
PairOutcomes ==
    { PrimaryReply("client_error", 0, <<>>, "none", FALSE, <<>>),
      PrimaryReply("timeout", 0, <<>>, "none", FALSE, <<>>),
      PrimaryReply("response", 503, BodyUnavailable, "none", FALSE, <<>>),
      PrimaryReply("response", 400, BodyMixedCase, "none", FALSE, <<>>),
      PrimaryReply("response", HTTP_OK, <<>>, "ok", TRUE, <<>>),
      PrimaryReply("response", HTTP_OK, <<>>, "ok", TRUE, <<Choice("ok", "4")>>) }

\* last_error as a module-level global: every invocation sees the assignment.
StoreLastErrorShared(s, i, e) ==
    [j \in Invocations |-> [s[j] EXCEPT !.last_error = e]]

\* Lines 123, 127, 131: last_error is a local (line 87) of the call.
StoreLastError(s, i, e) == [s EXCEPT ![i].last_error = e]

\* time.sleep in place of asyncio.sleep: a sleeping invocation holds the
\* event loop's thread.
EventLoopFreeBlockingSleep(i) ==
    \A j \in Invocations \ {i} : inv[j].pc # "sleeping"

\* Line 138: await asyncio.sleep suspends the coroutine and gives the event
\* loop back, as every await does; between two steps no invocation holds it.
EventLoopFree(i) == TRUE

\* ------------------------------------------------------ tool-calling flow
\* The content of a message.  A string is kind "text"; the JSON text that
\* execute_tool returns is kind "weather" (the fields of line 57-63) or
\* kind "error" (line 64, text the message).
Content(kind, text, location, temperature, unit) ==
    [kind |-> kind, text |-> text, location |-> location,
     temperature |-> temperature, unit |-> unit,
     condition |-> IF kind = "weather" THEN "Partly cloudy" ELSE "",
     humidity |-> IF kind = "weather" THEN 65 ELSE 0]

Text(t) == Content("text", t, "", 0, "")

\* The arguments string of a tool call, described by what json.loads makes
\* of it: json "object" a dict with the keys said present, "array" a list,
\* "invalid" no JSON at all.
Arguments(json, hasLocation, location, hasUnit, unit) ==
    [json |-> json, hasLocation |-> hasLocation, location |-> location,
     hasUnit |-> hasUnit, unit |-> unit]

ArgsLondon  == Arguments("object", TRUE, "London", FALSE, "")
ArgsParisF  == Arguments("object", TRUE, "Paris", TRUE, "fahrenheit")
ArgsNoKeys  == Arguments("object", FALSE, "", FALSE, "")
ArgsArray   == Arguments("array", FALSE, "", FALSE, "")
ArgsInvalid == Arguments("invalid", FALSE, "", FALSE, "")

ArgumentStrings == {ArgsLondon, ArgsParisF, ArgsNoKeys, ArgsArray, ArgsInvalid}

\* One element of message['tool_calls'].
ToolCall(id, name, arguments) == [id |-> id, name |-> name, arguments |-> arguments]

ToolCalls ==
    { ToolCall(id, name, a) :
        id \in {"call_a", "call_b"}, name \in {"get_weather", "get_time"},
        a \in ArgumentStrings }

ToolCallLists ==
    UNION { [1..n -> ToolCalls] : n \in 0..MaxToolCalls }

\* One message of the conversation.
Message(role, content, tool_call_id, tool_calls) ==
    [role |-> role, content |-> content, tool_call_id |-> tool_call_id,
     tool_calls |-> tool_calls]

\* Lines 103-105
InitialMessages ==
    <<Message("user", Text("What's the weather like in London?"), "", <<>>)>>

\* The first response: choice.get('finish_reason') and choice['message'].
FirstResponse(received, finish_reason, content, tool_calls) ==
    [received |-> received, finish_reason |-> finish_reason,
     message |-> Message("assistant", Text(content), "", tool_calls)]

NoFirstResponse == FirstResponse(FALSE, "", "", <<>>)

FirstResponses ==
    { FirstResponse(TRUE, fr, c, tc) :
        fr \in {"tool_calls", "stop"}, c \in {"", "It is sunny."},
        tc \in ToolCallLists }

\* Lines 52-64 with the unit ignored when the temperature is chosen.
execute_toolAlwaysCelsius(name, arguments) ==
    IF name = "get_weather"
    THEN Content("weather", "",
                 IF arguments.hasLocation THEN arguments.location ELSE "Unknown",
                 22,
                 IF arguments.hasUnit THEN arguments.unit ELSE "celsius")
    ELSE Content("error", "Unknown tool: " \o name, "", 0, "")

\* Lines 47-64: arguments is the dict json.loads returned.
execute_tool(name, arguments) ==
    IF name = "get_weather"
    THEN LET location == IF arguments.hasLocation THEN arguments.location ELSE "Unknown"
             unit == IF arguments.hasUnit THEN arguments.unit ELSE "celsius"
             temp == IF unit = "celsius" THEN 22 ELSE 72
         IN  Content("weather", "", location, temp, unit)
    ELSE Content("error", "Unknown tool: " \o name, "", 0, "")

\* Lines 131-145: the loop over tool_calls, from the conversation msgs on.
\* The result is the conversation it leaves and the exception that ended it
\* ("" when it ran to its end): json.loads raises on text that is no JSON
\* (line 133), arguments.get on a value that is no dict (line 53).
RECURSIVE RunToolCalls(_, _)
RunToolCalls(msgs, calls) ==
    IF calls = <<>> THEN [messages |-> msgs, error |-> ""]
    ELSE LET call == Head(calls) IN
         IF call.arguments.json = "invalid"
         THEN [messages |-> msgs, error |-> "JSONDecodeError"]
         ELSE IF call.name = "get_weather" /\ call.arguments.json # "object"
         THEN [messages |-> msgs, error |-> "AttributeError"]
         ELSE RunToolCalls(
                 Append(msgs, Message("tool",
                                      execute_tool(call.name, call.arguments),
                                      call.id, <<>>)),
                 Tail(calls))

\* Line 123
WantsTools(r) == r.finish_reason = "tool_calls" /\ r.message.tool_calls # <<>>

\* ------------------------------------------------------------------- Init
Init ==
    /\ VSCODE_MAX_RETRIES \in 1..MaxRetriesBound
    /\ VSCODE_LLM_FALLBACK_ENABLED \in BOOLEAN
    /\ ANTHROPIC_API_KEY \in BOOLEAN
    /\ pc = "loop"
    /\ attempt = 0
    /\ last_error = None
    /\ response = NoReply
    /\ caught = None
    /\ fallback = NoSecondaryReply
    /\ sessionOpen = FALSE
    /\ clientOpen = FALSE
    /\ result = NoResult
    /\ error = None
    /\ events = <<>>
    /\ inv = [i \in Invocations |-> PairLocals]
    /\ tpc = "start"
    /\ messages = InitialMessages
    /\ sent = <<>>
    /\ first = NoFirstResponse
    /\ toolsError = ""

\* ---------------------------------------------------------------- actions
\* Lines 89-97: the loop issues the request of this attempt.
PostRequest ==
    /\ pc = "loop"
    /\ LoopContinues(attempt)
    /\ sessionOpen' = TRUE
    /\ pc' = "awaiting_primary"
    /\ Log(Event("post", attempt, "", 0))
    /\ UNCHANGED <<config, pairVars, toolVars, clientOpen, attempt, last_error, response, caught, fallback, result, error>>

\* Line 120 without the return: the content is kept and the loop goes on.
PrimarySucceedsNoReturn ==
    /\ pc = "awaiting_primary"
    /\ \E r \in PrimaryOutcomes :
        /\ TryBody(r).kind = "return"
        /\ response' = r
        /\ result' = [text |-> r.choices[1].content, source |-> "PRIMARY"]
    /\ sessionOpen' = FALSE
    /\ pc' = "loop"
    /\ attempt' = attempt + 1
    /\ Log(Event("ok", attempt, "", 0))
    /\ UNCHANGED <<config, pairVars, toolVars, clientOpen, last_error, caught, fallback, error>>

\* Lines 104-120: the response is a success; call_vscode_llm returns content
\* and call_llm_with_fallback returns it (line 216).
PrimarySucceeds ==
    /\ pc = "awaiting_primary"
    /\ \E r \in PrimaryOutcomes :
        /\ TryBody(r).kind = "return"
        /\ response' = r
        /\ result' = [text |-> r.choices[1].content, source |-> "PRIMARY"]
    /\ sessionOpen' = FALSE
    /\ pc' = "done"
    /\ Log(Event("ok", attempt, "", 0))
    /\ UNCHANGED <<config, pairVars, toolVars, clientOpen, attempt, last_error, caught, fallback, error>>

\* Lines 123-131 as `last_error = last_error or e`: the first error is kept.
PrimaryFailsKeepsFirstError ==
    /\ pc = "awaiting_primary"
    /\ \E r \in PrimaryOutcomes :
        /\ TryBody(r).kind # "return"
        /\ ExceptClauses(TryBody(r)) # None
        /\ response' = r
        /\ last_error' = IF last_error # None THEN last_error
                         ELSE ExceptClauses(TryBody(r))
    /\ sessionOpen' = FALSE
    /\ IF BackoffNeeded(attempt)
       THEN /\ pc' = "sleeping"
            /\ events' = events \o <<Event("fail", attempt, last_error'.kind, 0),
                                     Event("sleep", attempt, "", WaitTime(attempt))>>
            /\ UNCHANGED attempt
       ELSE /\ pc' = "loop"
            /\ attempt' = attempt + 1
            /\ Log(Event("fail", attempt, last_error'.kind, 0))
    /\ UNCHANGED <<config, pairVars, toolVars, clientOpen, caught, fallback, result, error>>

\* Lines 98-111, 122-138: the attempt fails with an exception one of the
\* except clauses catches; last_error is set and the loop backs off unless
\* this was the last attempt.
PrimaryFails ==
    /\ pc = "awaiting_primary"
    /\ \E r \in PrimaryOutcomes :
        /\ TryBody(r).kind # "return"
        /\ ExceptClauses(TryBody(r)) # None
        /\ response' = r
        /\ last_error' = ExceptClauses(TryBody(r))
    /\ sessionOpen' = FALSE
    /\ IF BackoffNeeded(attempt)
       THEN /\ pc' = "sleeping"
            /\ events' = events \o <<Event("fail", attempt, last_error'.kind, 0),
                                     Event("sleep", attempt, "", WaitTime(attempt))>>
            /\ UNCHANGED attempt
       ELSE /\ pc' = "loop"
            /\ attempt' = attempt + 1
            /\ Log(Event("fail", attempt, last_error'.kind, 0))
    /\ UNCHANGED <<config, pairVars, toolVars, clientOpen, caught, fallback, result, error>>

\* An exception no except clause catches (asyncio.TimeoutError, KeyError,
\* JSONDecodeError) leaves call_vscode_llm, and call_llm_with_fallback, whose
\* handler catches VSCodeLLMError only.
PrimaryRaisesUncaught ==
    /\ pc = "awaiting_primary"
    /\ \E r \in PrimaryOutcomes :
        /\ TryBody(r).kind # "return"
        /\ ExceptClauses(TryBody(r)) = None
        /\ response' = r
        /\ error' = TryBody(r)
        /\ Log(Event("raise", attempt, TryBody(r).kind, 0))
    /\ sessionOpen' = FALSE
    /\ pc' = "done"
    /\ UNCHANGED <<config, pairVars, toolVars, clientOpen, attempt, last_error, caught, fallback, result>>

\* Line 138: asyncio.sleep returns; the loop goes to the next attempt.
WakeUp ==
    /\ pc = "sleeping"
    /\ attempt' = attempt + 1
    /\ pc' = "loop"
    /\ UNCHANGED <<config, pairVars, toolVars, clientOpen, last_error, response, caught, fallback, sessionOpen,
                   result, error, events>>

\* Line 141: raise last_error or VSCodeLLMError("All retries failed"); the
\* handler of call_llm_with_fallback (line 223) catches it.
RetriesExhausted ==
    /\ pc = "loop"
    /\ ~LoopContinues(attempt)
    /\ caught' = IF last_error # None THEN last_error
                 ELSE Exc("VSCodeLLMError", 0, <<>>)
    /\ pc' = "except"
    /\ UNCHANGED <<config, pairVars, toolVars, clientOpen, attempt, last_error, response, fallback, sessionOpen,
                   result, error, events>>

\* Lines 227-233: fallback disabled, or no credential: bare raise.
FallbackRefused ==
    /\ pc = "except"
    /\ ~FallbackPermitted
    /\ error' = caught
    /\ pc' = "done"
    /\ Log(Event("raise", attempt, caught.kind, 0))
    /\ UNCHANGED <<config, pairVars, toolVars, clientOpen, attempt, last_error, response, caught, fallback,
                   sessionOpen, result>>

\* Lines 236, 164-179: call_anthropic_fallback checks the credential again,
\* creates the client (line 171) and issues the one request to the secondary
\* backend.
FallbackCall ==
    /\ pc = "except"
    /\ FallbackPermitted
    /\ IF ~ANTHROPIC_API_KEY
       THEN /\ error' = Exc("ValueError", 0, <<>>)
            /\ pc' = "done"
            /\ UNCHANGED clientOpen
            /\ Log(Event("raise", attempt, "ValueError", 0))
       ELSE /\ pc' = "awaiting_secondary"
            /\ clientOpen' = TRUE
            /\ Log(Event("fallback_call", attempt, "", 0))
            /\ UNCHANGED error
    /\ UNCHANGED <<config, pairVars, toolVars, attempt, last_error, response, caught, fallback,
                   sessionOpen, result>>

\* Lines 181-191: the secondary backend answers; the text blocks are
\* concatenated and returned.
FallbackSucceeds ==
    /\ pc = "awaiting_secondary"
    /\ \E r \in SecondaryOutcomes :
        /\ r.type = "response"
        /\ fallback' = r
        /\ result' = [text |-> ExtractText(r.content), source |-> "FALLBACK"]
    /\ pc' = "done"
    /\ Log(Event("fallback_ok", attempt, "", 0))
    /\ UNCHANGED <<config, pairVars, toolVars, clientOpen, attempt, last_error, response, caught, sessionOpen, error>>

\* Line 173: client.messages.create raises; nothing catches it.
FallbackFails ==
    /\ pc = "awaiting_secondary"
    /\ \E r \in SecondaryOutcomes :
        /\ r.type = "api_error"
        /\ fallback' = r
        /\ error' = Exc("AnthropicAPIError", 0, <<>>)
    /\ pc' = "done"
    /\ Log(Event("raise", attempt, "AnthropicAPIError", 0))
    /\ UNCHANGED <<config, pairVars, toolVars, clientOpen, attempt, last_error, response, caught, sessionOpen, result>>

\* Line 171: client is a local that no statement closes (no async with, no
\* await client.close()); once the invocation is over its connections are
\* released only if and when the interpreter finalises the object.
ClientCollected ==
    /\ pc = "done"
    /\ clientOpen
    /\ clientOpen' = FALSE
    /\ UNCHANGED <<config, pairVars, toolVars, pc, attempt, last_error, response, caught, fallback,
                   sessionOpen, result, error, events>>

\* The caller cancels the task: CancelledError is raised at the await the
\* coroutine is suspended in (session.post, asyncio.sleep, messages.create).
\* No except clause catches it; the async with blocks of lines 91-97 close
\* the session on the way out; nothing closes the client.
Cancel ==
    /\ pc \in {"awaiting_primary", "sleeping", "awaiting_secondary"}
    /\ error' = Exc("CancelledError", 0, <<>>)
    /\ sessionOpen' = FALSE
    /\ pc' = "done"
    /\ Log(Event("raise", attempt, "CancelledError", 0))
    /\ UNCHANGED <<config, pairVars, toolVars, clientOpen, attempt, last_error, response, caught,
                   fallback, result>>

Next ==
    \/ PostRequest
    \/ PrimarySucceeds
    \/ PrimaryFails
    \/ PrimaryRaisesUncaught
    \/ WakeUp
    \/ RetriesExhausted
    \/ FallbackRefused
    \/ FallbackCall
    \/ FallbackSucceeds
    \/ FallbackFails
    \/ ClientCollected

Spec == Init /\ [][Next]_vars

\* The invocation with a caller that may cancel it.
NextCancel ==
    \/ Next
    \/ Cancel

SpecCancel == Init /\ [][NextCancel]_vars

\* ----------------------------------- two invocations in one event loop
single == <<pc, attempt, last_error, response, caught, fallback, sessionOpen,
            clientOpen, result, error, events>>

InitPair ==
    /\ Init
    /\ VSCODE_MAX_RETRIES <= MaxPairRetries

\* Lines 89-97 in invocation i.
PairPost(i) ==
    /\ EventLoopFree(i)
    /\ inv[i].pc = "loop"
    /\ LoopContinues(inv[i].attempt)
    /\ inv' = [inv EXCEPT ![i] = [@ EXCEPT !.pc = "awaiting_primary",
                                           !.posts = @ + 1]]
    /\ UNCHANGED <<config, single, toolVars>>

\* Lines 104-120 in invocation i: return content.
PairSucceeds(i) ==
    /\ EventLoopFree(i)
    /\ inv[i].pc = "awaiting_primary"
    /\ \E r \in PairOutcomes :
        /\ TryBody(r).kind = "return"
        /\ inv' = [inv EXCEPT ![i] =
                      [@ EXCEPT !.pc = "done",
                                !.response = r,
                                !.returned = [text |-> r.choices[1].content,
                                              source |-> "PRIMARY"]]]
    /\ UNCHANGED <<config, single, toolVars>>

\* Lines 98-111, 122-138 in invocation i: a classified failure, then the
\* backoff unless this was the last attempt.
PairFails(i) ==
    /\ EventLoopFree(i)
    /\ inv[i].pc = "awaiting_primary"
    /\ \E r \in PairOutcomes :
        /\ TryBody(r).kind # "return"
        /\ ExceptClauses(TryBody(r)) # None
        /\ inv' = StoreLastError(
                      [inv EXCEPT ![i] =
                          IF BackoffNeeded(inv[i].attempt)
                          THEN [@ EXCEPT !.pc = "sleeping",
                                         !.response = r,
                                         !.sleeps = Append(@, WaitTime(inv[i].attempt))]
                          ELSE [@ EXCEPT !.pc = "loop",
                                         !.response = r,
                                         !.attempt = @ + 1]],
                      i, ExceptClauses(TryBody(r)))
    /\ UNCHANGED <<config, single, toolVars>>

\* An exception no clause of lines 122-132 catches leaves invocation i.
PairRaisesUncaught(i) ==
    /\ EventLoopFree(i)
    /\ inv[i].pc = "awaiting_primary"
    /\ \E r \in PairOutcomes :
        /\ TryBody(r).kind # "return"
        /\ ExceptClauses(TryBody(r)) = None
        /\ inv' = [inv EXCEPT ![i] = [@ EXCEPT !.pc = "done",
                                               !.response = r,
                                               !.raised = TryBody(r)]]
    /\ UNCHANGED <<config, single, toolVars>>

\* Line 138 in invocation i: the sleep is over.
PairWakeUp(i) ==
    /\ EventLoopFree(i)
    /\ inv[i].pc = "sleeping"
    /\ inv' = [inv EXCEPT ![i] = [@ EXCEPT !.pc = "loop", !.attempt = @ + 1]]
    /\ UNCHANGED <<config, single, toolVars>>

\* Line 141 in invocation i.
PairExhausted(i) ==
    /\ EventLoopFree(i)
    /\ inv[i].pc = "loop"
    /\ ~LoopContinues(inv[i].attempt)
    /\ inv' = [inv EXCEPT ![i] =
                  [@ EXCEPT !.pc = "done",
                            !.raised = IF inv[i].last_error # None
                                       THEN inv[i].last_error
                                       ELSE Exc("VSCodeLLMError", 0, <<>>)]]
    /\ UNCHANGED <<config, single, toolVars>>

NextPair ==
    \E i \in Invocations :
        \/ PairPost(i)
        \/ PairSucceeds(i)
        \/ PairFails(i)
        \/ PairRaisesUncaught(i)
        \/ PairWakeUp(i)
        \/ PairExhausted(i)

SpecPair == InitPair /\ [][NextPair]_vars

\* --------------------------------------- pass-through tool-calling flow
\* Line 114: the first request carries the conversation as it is.
ToolsSendFirst ==
    /\ tpc = "start"
    /\ sent' = Append(sent, messages)
    /\ tpc' = "awaiting_first"
    /\ UNCHANGED <<config, single, pairVars, messages, first, toolsError>>

\* Lines 89-91: a non-200 response (or a transport error) raises out of
\* chat_with_tools; line 158 catches it.
ToolsFirstFails ==
    /\ tpc = "awaiting_first"
    /\ toolsError' = "Exception"
    /\ tpc' = "done"
    /\ UNCHANGED <<config, single, pairVars, messages, sent, first>>

\* Lines 154-156: the response asks for no tool; it is printed.
ToolsFirstPlain ==
    /\ tpc = "awaiting_first"
    /\ \E r \in FirstResponses :
        /\ ~WantsTools(r)
        /\ first' = r
    /\ tpc' = "done"
    /\ UNCHANGED <<config, single, pairVars, messages, sent, toolsError>>

\* Lines 123-149: the assistant message is appended, every tool call is
\* executed and its result appended, and the follow-up request is sent; an
\* exception of the loop is caught at line 158 and ends the flow.
ToolsFirstWantsTools ==
    /\ tpc = "awaiting_first"
    /\ \E r \in FirstResponses :
        /\ WantsTools(r)
        /\ first' = r
        /\ LET run == RunToolCalls(Append(messages, r.message), r.message.tool_calls)
           IN  /\ messages' = run.messages
               /\ IF run.error = ""
                  THEN /\ sent' = Append(sent, run.messages)
                       /\ tpc' = "awaiting_final"
                       /\ UNCHANGED toolsError
                  ELSE /\ toolsError' = run.error
                       /\ tpc' = "done"
                       /\ UNCHANGED sent
    /\ UNCHANGED <<config, single, pairVars>>

\* Lines 149-152: the final response arrives (or the request raises).
ToolsFinal ==
    /\ tpc = "awaiting_final"
    /\ \E ok \in BOOLEAN : toolsError' = IF ok THEN "" ELSE "Exception"
    /\ tpc' = "done"
    /\ UNCHANGED <<config, single, pairVars, messages, sent, first>>

NextTools ==
    \/ ToolsSendFirst
    \/ ToolsFirstFails
    \/ ToolsFirstPlain
    \/ ToolsFirstWantsTools
    \/ ToolsFinal

SpecTools == Init /\ [][NextTools]_vars

\* ------------------------------------------------- reading the event log
EventsOf(ev) == SelectSeq(events, LAMBDA e : e.ev = ev)

PrimaryRequests == Len(EventsOf("post"))
Failures == EventsOf("fail")
Sleeps == EventsOf("sleep")
SecondaryCalls == Len(EventsOf("fallback_call"))
TerminalErrors == Len(EventsOf("raise"))

\* ----------------------------------- what the backends did, read directly
\* HTTP 200 with non-empty first-choice content.
PrimaryReplySucceeds(r) ==
    /\ r.type = "response"
    /\ r.status = 200
    /\ r.json = "ok"
    /\ r.hasChoices
    /\ Len(r.choices) >= 1
    /\ r.choices[1].shape = "ok"
    /\ r.choices[1].content # ""

\* HTTP 200 whose choices are missing or empty, or whose first choice has
\* empty (or null) message content.
PrimaryReplyEmpty(r) ==
    /\ r.type = "response"
    /\ r.status = 200
    /\ r.json = "ok"
    /\ \/ ~r.hasChoices
       \/ r.choices = <<>>
       \/ /\ Len(r.choices) >= 1
          /\ \/ r.choices[1].shape = "null_content"
             \/ r.choices[1].shape = "ok" /\ r.choices[1].content = ""

\* The error bodies that contain "filtered" in some letter case.
FilteredBodies == {BodyFiltered, BodyMixedCase}

\* The classified error a failed reply is expected to leave.
ExpectedError(r) ==
    IF r.type = "client_error" \/ (r.type = "response" /\ r.json = "bad_content_type")
    THEN Exc("VSCodeLLMConnectionError", 0, <<>>)
    ELSE IF r.type = "response" /\ r.status # 200
    THEN (IF r.body \in FilteredBodies
          THEN Exc("ContentFilteredError", r.status, r.body)
          ELSE Exc("VSCodeLLMError", r.status, r.body))
    ELSE Exc("EmptyResponseError", 0, <<>>)

\* The text each secondary reply of BlockLists carries.
ExpectedText(blocks) ==
    IF blocks = <<Block(TRUE, "4")>> THEN "4"
    ELSE IF Len(blocks) = 3 THEN "Paris"
    ELSE ""

\* 2, 4, 8, ... seconds
ExpectedDelays == <<2, 4, 8, 16, 32, 64>>

\* All primary attempts of the budget were made and failed.
AllPrimaryFailed == Len(Failures) = VSCODE_MAX_RETRIES

\* ------------------------------------------------------------------ claims
\* C1: an invocation returns a result if and only if the primary backend
\* succeeded within the retry budget, or all primary attempts failed and the
\* fallback is enabled, has a credential and its call succeeded; in every
\* other case it ends with a terminal error and no result.
C1_ResultIffPrimaryOrFallback ==
    pc = "done" =>
        /\ (result # NoResult) <=>
              \/ PrimaryReplySucceeds(response) /\ PrimaryRequests <= VSCODE_MAX_RETRIES
              \/ /\ AllPrimaryFailed
                 /\ VSCODE_LLM_FALLBACK_ENABLED
                 /\ ANTHROPIC_API_KEY
                 /\ fallback.type = "response"
        /\ (result = NoResult) <=> (error # None)

C1_Witness ==
    /\ pc = "done"
    /\ result.source = "FALLBACK"
    /\ VSCODE_MAX_RETRIES = 3
    /\ AllPrimaryFailed

\* C2: when every primary request fails with a transport error, exactly
\* VSCODE_MAX_RETRIES requests are issued to the primary backend before the
\* fallback is evaluated, and never more.
OnlyTransportFailures ==
    /\ \A i \in 1..Len(events) : events[i].ev \in {"post", "fail", "sleep"}
    /\ \A i \in 1..Len(Failures) : Failures[i].kind = "VSCodeLLMConnectionError"

C2_ExactlyNAttempts ==
    /\ PrimaryRequests <= VSCODE_MAX_RETRIES
    /\ (pc = "except" /\ OnlyTransportFailures) =>
          /\ PrimaryRequests = VSCODE_MAX_RETRIES
          /\ Len(Failures) = VSCODE_MAX_RETRIES

C2_Witness ==
    /\ pc = "except"
    /\ OnlyTransportFailures
    /\ VSCODE_MAX_RETRIES = 3
    /\ PrimaryRequests = 3

\* C3: when the primary backend succeeds on attempt k, the content is returned
\* at once with source PRIMARY: nothing follows the success, k requests and
\* k - 1 backoffs were made (one request and no backoff for the first
\* attempt), and the secondary backend is never called.
C3_PrimarySuccessEndsInvocation ==
    /\ PrimaryReplySucceeds(response) =>
          /\ pc = "done"
          /\ result = [text |-> response.choices[1].content, source |-> "PRIMARY"]
          /\ error = None
          /\ events[Len(events)].ev = "ok"
          /\ attempt < VSCODE_MAX_RETRIES
          /\ PrimaryRequests = attempt + 1
          /\ Len(Sleeps) = attempt
          /\ SecondaryCalls = 0
    /\ \A i \in 1..Len(events) : events[i].ev = "ok" => i = Len(events)

C3_Witness ==
    /\ PrimaryReplySucceeds(response)
    /\ attempt = 2
    /\ Len(Sleeps) = 2
    /\ result.text = "Paris"

C3_WitnessFirstAttempt ==
    /\ PrimaryReplySucceeds(response)
    /\ attempt = 0
    /\ PrimaryRequests = 1

\* C4: after failed attempt i <= N-2 the pipeline sleeps 2 ** (i+1) seconds
\* before attempt i+1; after the last attempt it does not sleep; a fully
\* failing invocation sleeps exactly N-1 times.
C4_BackoffSchedule ==
    /\ \A j \in 1..Len(Sleeps) :
          /\ Sleeps[j].n = j - 1
          /\ Sleeps[j].n <= VSCODE_MAX_RETRIES - 2
          /\ Sleeps[j].wait = ExpectedDelays[j]
    /\ \A i \in 1..Len(events) :
          /\ events[i].ev = "sleep" =>
                /\ i > 1
                /\ events[i - 1].ev = "fail"
                /\ events[i - 1].n = events[i].n
                /\ i < Len(events) =>
                      events[i + 1] = Event("post", events[i].n + 1, "", 0)
          /\ (events[i].ev = "fail" /\ events[i].n <= VSCODE_MAX_RETRIES - 2) =>
                /\ i < Len(events)
                /\ events[i + 1].ev = "sleep"
          /\ (events[i].ev = "fail" /\ events[i].n = VSCODE_MAX_RETRIES - 1) =>
                (i < Len(events) => events[i + 1].ev # "sleep")
    /\ pc = "sleeping" =>
          events[Len(events)] = Event("sleep", attempt, "", ExpectedDelays[attempt + 1])
    /\ AllPrimaryFailed => Len(Sleeps) = VSCODE_MAX_RETRIES - 1

C4_Witness ==
    /\ AllPrimaryFailed
    /\ VSCODE_MAX_RETRIES = 4
    /\ pc = "except"
    /\ Len(Sleeps) = 3
    /\ Sleeps[3].wait = 8

\* C5: when all N primary attempts failed and the fallback is disabled or has
\* no credential, the secondary backend is never called and the invocation
\* fails with the classified error of the last primary attempt.
C5_NoFallbackSurfacesLastError ==
    (pc = "done" /\ AllPrimaryFailed
        /\ (~VSCODE_LLM_FALLBACK_ENABLED \/ ~ANTHROPIC_API_KEY)) =>
        /\ SecondaryCalls = 0
        /\ fallback = NoSecondaryReply
        /\ result = NoResult
        /\ error = ExpectedError(response)
        /\ error.kind = Failures[VSCODE_MAX_RETRIES].kind
        /\ events[Len(events)] = Event("raise", VSCODE_MAX_RETRIES, error.kind, 0)

C5_Witness ==
    /\ pc = "done"
    /\ AllPrimaryFailed
    /\ ~VSCODE_LLM_FALLBACK_ENABLED
    /\ ANTHROPIC_API_KEY
    /\ VSCODE_MAX_RETRIES = 3
    /\ error.kind = "ContentFilteredError"

C5_WitnessNoCredential ==
    /\ pc = "done"
    /\ AllPrimaryFailed
    /\ VSCODE_LLM_FALLBACK_ENABLED
    /\ ~ANTHROPIC_API_KEY
    /\ error.kind = "VSCodeLLMConnectionError"

\* C6: with the fallback enabled and a credential set, N failed primary
\* attempts are followed by exactly one secondary call; its success is
\* returned with source FALLBACK, its failure is the terminal error; the
\* secondary is not retried and no primary attempt follows it.
C6_ExactlyOneFallbackCall ==
    /\ SecondaryCalls <= 1
    /\ \A i \in 1..Len(events) :
          events[i].ev = "fallback_call" =>
              /\ Len(SelectSeq(SubSeq(events, 1, i), LAMBDA e : e.ev = "fail"))
                    = VSCODE_MAX_RETRIES
              /\ Len(events) <= i + 1
              /\ i < Len(events) => events[i + 1].ev \in {"fallback_ok", "raise"}
    /\ (AllPrimaryFailed /\ VSCODE_LLM_FALLBACK_ENABLED /\ ANTHROPIC_API_KEY
          /\ pc \in {"awaiting_secondary", "done"}) =>
          /\ SecondaryCalls = 1
          /\ PrimaryRequests = VSCODE_MAX_RETRIES
          /\ pc = "done" =>
                /\ fallback.type = "response" =>
                      /\ result = [text |-> ExpectedText(fallback.content),
                                   source |-> "FALLBACK"]
                      /\ error = None
                /\ fallback.type = "api_error" =>
                      /\ result = NoResult
                      /\ error = Exc("AnthropicAPIError", 0, <<>>)
                /\ fallback.type # "none"

C6_Witness ==
    /\ pc = "done"
    /\ VSCODE_MAX_RETRIES = 3
    /\ Len(Failures) = 3
    /\ \A i \in 1..3 : Failures[i].kind = "VSCodeLLMError"
    /\ response.status = 503
    /\ response.body = BodyUnavailable
    /\ SecondaryCalls = 1
    /\ result = [text |-> "Paris", source |-> "FALLBACK"]

C6_WitnessSecondaryFails ==
    /\ pc = "done"
    /\ AllPrimaryFailed
    /\ SecondaryCalls = 1
    /\ fallback.type = "api_error"
    /\ error.kind = "AnthropicAPIError"

\* C7: a non-200 primary response is classified ContentFiltered when its body
\* contains "filtered" in any letter case and ProtocolError (the base
\* VSCodeLLMError, with status and body) otherwise, whatever the status code
\* and the attempt.
C7_FilteredClassification ==
    (response.type = "response" /\ response.status # 200) =>
        /\ last_error =
              IF response.body \in FilteredBodies
              THEN Exc("ContentFilteredError", response.status, response.body)
              ELSE Exc("VSCodeLLMError", response.status, response.body)
        /\ Failures[Len(Failures)].kind = last_error.kind

C7_Witness ==
    /\ response.type = "response"
    /\ response.status = 503
    /\ response.body = BodyMixedCase
    /\ attempt >= 1
    /\ last_error.kind = "ContentFilteredError"

C7_WitnessProtocolError ==
    /\ response.type = "response"
    /\ response.status = 400
    /\ response.body = BodyNearMiss
    /\ last_error.kind = "VSCodeLLMError"

\* C8 (as claimed): an invocation that returns no result surfaces exactly one
\* terminal error, of one of the five kinds ConnectionError, ContentFiltered,
\* EmptyResponse, ProtocolError, FallbackUnavailable.
TaxonomyKinds ==
    {"VSCodeLLMConnectionError", "ContentFilteredError", "EmptyResponseError",
     "VSCodeLLMError", "FallbackUnavailable"}

C8_OnlyTaxonomyErrors ==
    (pc = "done" /\ result = NoResult) =>
        /\ TerminalErrors = 1
        /\ error.kind \in TaxonomyKinds

\* C9: a 200 response with missing or empty choices, or empty first-choice
\* content, is classified EmptyResponse and retried with backoff like any
\* failure; on all N attempts with the fallback disabled the invocation ends
\* with EmptyResponse after N attempts and N-1 delays.
AllFailuresEmpty ==
    \A i \in 1..Len(Failures) : Failures[i].kind = "EmptyResponseError"

C9_EmptyResponseRetried ==
    /\ PrimaryReplyEmpty(response) =>
          /\ last_error = Exc("EmptyResponseError", 0, <<>>)
          /\ result.source # "PRIMARY"
          /\ Failures[Len(Failures)].kind = "EmptyResponseError"
          /\ Len(Sleeps) = IF Len(Failures) < VSCODE_MAX_RETRIES
                           THEN Len(Failures) ELSE VSCODE_MAX_RETRIES - 1
    /\ (pc = "done" /\ AllPrimaryFailed /\ AllFailuresEmpty
          /\ ~VSCODE_LLM_FALLBACK_ENABLED) =>
          /\ error = Exc("EmptyResponseError", 0, <<>>)
          /\ PrimaryRequests = VSCODE_MAX_RETRIES
          /\ Len(Sleeps) = VSCODE_MAX_RETRIES - 1
          /\ VSCODE_MAX_RETRIES = 2 => (Len(Sleeps) = 1 /\ Sleeps[1].wait = 2)

C9_Witness ==
    /\ pc = "done"
    /\ VSCODE_MAX_RETRIES = 2
    /\ AllPrimaryFailed
    /\ AllFailuresEmpty
    /\ ~VSCODE_LLM_FALLBACK_ENABLED
    /\ response.choices = <<Choice("ok", "")>>
    /\ PrimaryRequests = 2
    /\ error.kind = "EmptyResponseError"

\* C10 (as claimed): whenever the pipeline returns a result, from the primary
\* or from the fallback backend, its text is non-empty.
C10_ResultTextNonEmpty ==
    result # NoResult => result.text # ""

\* C11 (as claimed): every connection resource acquired for a backend call,
\* the per-attempt HTTP session and the fallback vendor client, is released
\* on every exit path, cancellation included: no end state of an invocation
\* still holds one.
C11_NoResourceHeldAtEnd ==
    pc = "done" => (~sessionOpen /\ ~clientOpen)

\* C13: backend calls of one invocation are strictly sequential: at most one
\* request is in flight; attempt i+1 is posted only after attempt i failed
\* and its backoff elapsed; the secondary backend is called only after the
\* N-th primary failure, at most once, and no primary attempt follows it.
RepliesTo(ev) ==
    IF ev = "post" THEN {"ok", "fail", "raise"} ELSE {"fallback_ok", "raise"}

InFlight ==
    { i \in 1..Len(events) :
        /\ events[i].ev \in {"post", "fallback_call"}
        /\ (i = Len(events) \/ events[i + 1].ev \notin RepliesTo(events[i].ev)) }

C13_StrictlySequential ==
    /\ Cardinality(InFlight) <= 1
    /\ Cardinality(InFlight) = 1 <=> pc \in {"awaiting_primary", "awaiting_secondary"}
    /\ sessionOpen <=> pc = "awaiting_primary"
    /\ pc = "sleeping" => events[Len(events)].ev = "sleep"
    /\ SecondaryCalls <= 1
    /\ \A i \in 1..Len(events) :
          /\ (events[i].ev = "post" /\ events[i].n = 0) => i = 1
          /\ (events[i].ev = "post" /\ events[i].n > 0) =>
                /\ i > 2
                /\ events[i - 1].ev = "sleep"
                /\ events[i - 1].n = events[i].n - 1
                /\ events[i - 2].ev = "fail"
                /\ events[i - 2].n = events[i].n - 1
          /\ events[i].ev = "fallback_call" =>
                /\ i > 1
                /\ events[i - 1].ev = "fail"
                /\ events[i - 1].n = VSCODE_MAX_RETRIES - 1
                /\ \A j \in (i + 1)..Len(events) :
                      events[j].ev \notin {"post", "fallback_call"}

C13_Witness ==
    /\ pc = "awaiting_secondary"
    /\ VSCODE_MAX_RETRIES = 3
    /\ PrimaryRequests = 3
    /\ Len(Sleeps) = 2
    /\ Cardinality(InFlight) = 1

\* C14: failures of attempts 1 .. N-1 are never surfaced, they only drive the
\* backoff loop; when the invocation fails without taking the fallback the
\* error surfaced is the classified error of the N-th attempt.
C14_OnlyFinalFailureSurfaced ==
    /\ error # None => pc = "done"
    /\ \A i \in 1..Len(events) :
          /\ events[i].ev = "raise" => i = Len(events)
          /\ (events[i].ev = "fail" /\ events[i].n < VSCODE_MAX_RETRIES - 1) =>
                /\ i < Len(events)
                /\ events[i + 1].ev = "sleep"
    /\ (pc = "done" /\ AllPrimaryFailed /\ SecondaryCalls = 0) =>
          /\ TerminalErrors = 1
          /\ error = ExpectedError(response)
          /\ error.kind = Failures[VSCODE_MAX_RETRIES].kind
          /\ events[Len(events)].kind = Failures[VSCODE_MAX_RETRIES].kind

C14_Witness ==
    /\ pc = "done"
    /\ VSCODE_MAX_RETRIES = 3
    /\ AllPrimaryFailed
    /\ SecondaryCalls = 0
    /\ Failures[1].kind = "VSCodeLLMConnectionError"
    /\ Failures[2].kind = "EmptyResponseError"
    /\ Failures[3].kind = "ContentFilteredError"
    /\ error.kind = "ContentFilteredError"

\* C15: a primary attempt that fails with an exception outside the classified
\* set (request timeout, undecodable 200 body, first choice without message
\* or content) ends the invocation at that attempt: the exception reaches the
\* caller unchanged, with no backoff, no further attempt and no secondary
\* call, whatever the fallback configuration and the budget left.
PrimaryReplyUnclassified(r) ==
    \/ r.type = "timeout"
    \/ /\ r.type = "response"
       /\ r.status = 200
       /\ \/ r.json = "bad_json"
          \/ /\ r.json = "ok"
             /\ r.hasChoices
             /\ Len(r.choices) >= 1
             /\ r.choices[1].shape \in {"no_message", "no_content"}

ExpectedUnclassified(r) ==
    IF r.type = "timeout" THEN "TimeoutError"
    ELSE IF r.json = "bad_json" THEN "JSONDecodeError"
    ELSE "KeyError"

C15_UnclassifiedEndsInvocation ==
    PrimaryReplyUnclassified(response) =>
        /\ pc = "done"
        /\ result = NoResult
        /\ error = Exc(ExpectedUnclassified(response), 0, <<>>)
        /\ events[Len(events)] =
              Event("raise", attempt, ExpectedUnclassified(response), 0)
        /\ PrimaryRequests = attempt + 1
        /\ Len(Failures) = attempt
        /\ Len(Sleeps) = attempt
        /\ SecondaryCalls = 0
        /\ fallback = NoSecondaryReply

C15_Witness ==
    /\ PrimaryReplyUnclassified(response)
    /\ response.type = "timeout"
    /\ VSCODE_MAX_RETRIES = 3
    /\ attempt = 0
    /\ VSCODE_LLM_FALLBACK_ENABLED
    /\ ANTHROPIC_API_KEY
    /\ error.kind = "TimeoutError"

C15_WitnessMalformed ==
    /\ PrimaryReplyUnclassified(response)
    /\ response.choices = <<Choice("no_message", "")>>
    /\ VSCODE_MAX_RETRIES = 4
    /\ attempt = 1
    /\ error.kind = "KeyError"

\* C12: two concurrent invocations are independent: while one is suspended in
\* its backoff the other can still take its next step, and in every
\* interleaving each invocation's attempt count, backoff sequence, last
\* recorded error and outcome are those its own replies produce when it runs
\* alone.
StepOf(i) ==
    \/ PairPost(i)
    \/ PairSucceeds(i)
    \/ PairFails(i)
    \/ PairRaisesUncaught(i)
    \/ PairWakeUp(i)
    \/ PairExhausted(i)

PrimaryReplyClassified(r) ==
    /\ r # NoReply
    /\ ~PrimaryReplySucceeds(r)
    /\ ~PrimaryReplyUnclassified(r)

\* What one invocation shows when only its own replies drive it.
AsWhenAlone(l) ==
    /\ l.sleeps = SubSeq(ExpectedDelays, 1, Len(l.sleeps))
    /\ l.posts <= VSCODE_MAX_RETRIES
    /\ l.response = NoReply => (l.last_error = None /\ l.posts <= 1)
    /\ PrimaryReplyClassified(l.response) => l.last_error = ExpectedError(l.response)
    /\ l.pc = "loop" =>
          /\ l.posts = l.attempt
          /\ Len(l.sleeps) = IF l.attempt < VSCODE_MAX_RETRIES
                             THEN l.attempt ELSE VSCODE_MAX_RETRIES - 1
    /\ l.pc = "awaiting_primary" =>
          (l.posts = l.attempt + 1 /\ Len(l.sleeps) = l.attempt)
    /\ l.pc = "sleeping" =>
          /\ l.posts = l.attempt + 1
          /\ Len(l.sleeps) = l.attempt + 1
          /\ PrimaryReplyClassified(l.response)
    /\ l.pc # "done" => (l.returned = NoResult /\ l.raised = None)
    /\ l.pc = "done" =>
          /\ (l.returned = NoResult) # (l.raised = None)
          /\ PrimaryReplySucceeds(l.response) =>
                /\ l.returned = [text |-> l.response.choices[1].content,
                                 source |-> "PRIMARY"]
                /\ l.posts = l.attempt + 1
                /\ Len(l.sleeps) = l.attempt
          /\ PrimaryReplyUnclassified(l.response) =>
                /\ l.raised = Exc(ExpectedUnclassified(l.response), 0, <<>>)
                /\ l.posts = l.attempt + 1
                /\ Len(l.sleeps) = l.attempt
          /\ PrimaryReplyClassified(l.response) =>
                /\ l.raised = ExpectedError(l.response)
                /\ l.posts = VSCODE_MAX_RETRIES
                /\ Len(l.sleeps) = VSCODE_MAX_RETRIES - 1

C12_InvocationsIndependent ==
    \A i \in Invocations :
        /\ AsWhenAlone(inv[i])
        /\ \A j \in Invocations \ {i} :
              (inv[i].pc = "sleeping" /\ inv[j].pc # "done") => ENABLED StepOf(j)

C12_Witness ==
    /\ inv[1].pc = "sleeping"
    /\ inv[1].sleeps = <<2, 4>>
    /\ inv[1].last_error.kind = "ContentFilteredError"
    /\ inv[2].pc = "done"
    /\ inv[2].posts = 2
    /\ inv[2].last_error.kind = "VSCodeLLMConnectionError"
    /\ inv[2].returned.text = "4"

\* C16 (as claimed): when the first response has finish_reason 'tool_calls'
\* and a non-empty list of m tool calls, exactly one follow-up request is
\* sent, with the original messages, the assistant message and m tool
\* messages, one per call in order, each with the call's id and the result
\* of execute_tool; without tool calls no follow-up is sent and nothing is
\* appended.
ExpectedToolResult(call) ==
    IF call.name # "get_weather"
    THEN Content("error", "Unknown tool: get_time", "", 0, "")
    ELSE IF call.arguments = ArgsLondon THEN Content("weather", "", "London", 22, "celsius")
    ELSE IF call.arguments = ArgsParisF THEN Content("weather", "", "Paris", 72, "fahrenheit")
    ELSE Content("weather", "", "Unknown", 22, "celsius")

ExpectedFollowUp(r) ==
    InitialMessages \o <<r.message>> \o
    [k \in 1..Len(r.message.tool_calls) |->
        Message("tool", ExpectedToolResult(r.message.tool_calls[k]),
                r.message.tool_calls[k].id, <<>>)]

FollowUpAsExpected ==
    /\ Len(sent) = 2
    /\ sent[1] = InitialMessages
    /\ sent[2] = ExpectedFollowUp(first)
    /\ messages = sent[2]

NoFollowUp ==
    /\ Len(sent) = 1
    /\ sent[1] = InitialMessages

C16_FollowUpForEveryToolCallList ==
    /\ Len(sent) <= 2
    /\ (first.received /\ WantsTools(first)) => FollowUpAsExpected
    /\ (first.received /\ ~WantsTools(first)) =>
          (NoFollowUp /\ messages = InitialMessages)

\* C16 (amended): the same, for tool calls whose arguments all parse as JSON
\* (as a JSON object for a get_weather call); when the arguments of some call
\* do not, the flow ends with that exception and no follow-up is sent.
ArgumentsUsable(call) ==
    /\ call.arguments.json # "invalid"
    /\ call.name = "get_weather" => call.arguments.json = "object"

AllArgumentsUsable(r) ==
    \A k \in 1..Len(r.message.tool_calls) : ArgumentsUsable(r.message.tool_calls[k])

C16_FollowUpForUsableToolCalls ==
    /\ Len(sent) <= 2
    /\ (first.received /\ WantsTools(first) /\ AllArgumentsUsable(first)) =>
          FollowUpAsExpected
    /\ (first.received /\ WantsTools(first) /\ ~AllArgumentsUsable(first)) =>
          /\ NoFollowUp
          /\ tpc = "done"
          /\ toolsError \in {"JSONDecodeError", "AttributeError"}
    /\ (first.received /\ ~WantsTools(first)) =>
          (NoFollowUp /\ messages = InitialMessages)

C16_Witness ==
    /\ tpc = "awaiting_final"
    /\ first.finish_reason = "tool_calls"
    /\ first.message.tool_calls =
          <<ToolCall("call_b", "get_weather", ArgsParisF),
            ToolCall("call_a", "get_time", ArgsArray)>>
    /\ Len(sent) = 2
    /\ Len(sent[2]) = 4
    /\ sent[2][3].tool_call_id = "call_b"
    /\ sent[2][3].content.temperature = 72
    /\ sent[2][4].content.kind = "error"

C16_WitnessNoToolCalls ==
    /\ tpc = "done"
    /\ first.received
    /\ first.finish_reason = "tool_calls"
    /\ first.message.tool_calls = <<>>
    /\ Len(sent) = 1

====
